---- MODULE Spec2Model ----
(***************************************************************************)
(* Resumable batch upload pipeline of the candy-machine CLI.               *)
(*                                                                         *)
(* Two implementations of the upload command are modelled:                 *)
(*   impl = "v1"  js/packages/cli/src/commands/upload.ts                   *)
(*                (windows of BATCH_SIZE[storage] concurrent item uploads, *)
(*                 returns a success flag)                                 *)
(*   impl = "v2"  unnamed/part_000                                         *)
(*                (getItemsNeedingUpload, arweave bundle path, initConfig, *)
(*                 writeIndices, returns nothing)                          *)
(* together with helpers/upload/arweave-bundle.ts (batch planning and the  *)
(* two-phase bundle upload).                                               *)
(*                                                                         *)
(* An action is one run-to-completion step of the event loop: the code     *)
(* between two awaits.  External calls (storage upload, createConfig,      *)
(* addConfigLines) are issued by one action and settled, with success or   *)
(* failure, by another.  Item indices are the integer-like filename stems, *)
(* so Object.keys lists them in ascending numeric order.                   *)
(***************************************************************************)
EXTENDS Integers, Sequences, FiniteSets, TLC

VARIABLES
    impl,       \* which upload command runs
    storage,    \* the storage argument
    files,      \* the files argument (sequence of paths)
    sizes,      \* fs.statSync(<item>.png).size of every item
    disk,       \* the cache file (loadCache / saveCache)
    mem,        \* cacheContent / cache: the in-memory cache of the run
    pc,         \* position of the run
    run,        \* number of runs started on this cache file
    ret,        \* outcome of upload(): value returned, or raised
    images,     \* v1: images
    cur,        \* v1: currentBatchStartIndex
    tasks,      \* v1: state of the upload_one_item promise of every position
    flag,       \* v1: uploadSuccessful
    needUpload, \* v2: needUpload
    pos,        \* v2: position of the for-of loop over needUpload
    batches,    \* v2: batches of arweaveBundleUpload
    bst,        \* v2: state of the async function of every batch
    bres,       \* v2: value returned by the async function of every batch
    keys,       \* keys of the registry commit phase
    chunkOff,   \* offset of the group each outer chunk is awaiting, or Done
    startDisk,  \* history: the cache file as loaded by the run
    nUploads,   \* history: storage uploads issued in the run, per index
    inits,      \* history: createConfig calls issued in the run
    writes,     \* history: addConfigLines calls issued in the run
    upOk,       \* history: indices whose upload succeeded in the run
    upFail,     \* history: indices whose upload failed in the run
    wFail,      \* history: number of failed addConfigLines calls in the run
    hist        \* history: createConfig outcomes and the keys of settled writes

vars == <<impl, storage, files, sizes, disk, mem, pc, run, ret, images, cur,
          tasks, flag, needUpload, pos, batches, bst, bres, keys, chunkOff,
          startDisk, nUploads, inits, writes, upOk, upFail, wFail, hist>>

-----------------------------------------------------------------------------
(* Bounds of the model *)

MaxRuns == 2          \* runs on the same cache file
NumFiles == 6         \* length of the longest file list
BigCache == 25        \* number of items of the largest initial cache

(* Program constants *)

BATCH_SIZE_ARWEAVE == 5
BATCH_SIZE_IPFS == 1
BATCH_SIZE_AWS == 1
CHUNK_SIZE == 1000
GROUP_SIZE == 10
MB == 1000 * 1000
BATCH_SIZE_LIMIT == 50 * 1000 * 1000

BATCH_SIZE(st) ==
    CASE st = "arweave" -> BATCH_SIZE_ARWEAVE
      [] st = "ipfs" -> BATCH_SIZE_IPFS
      [] st = "aws" -> BATCH_SIZE_AWS

ArweaveNative == "arweave-native"

Done == -1

Min(a, b) == IF a < b THEN a ELSE b

-----------------------------------------------------------------------------
(* Data model *)

NoLink == [kind |-> "none", of |-> 0]

\* the link a storage backend returns for the payload of item i
ItemLink(i) == [kind |-> "item", of |-> i]
ImageLink(i) == [kind |-> "image", of |-> i]
ManifestLink(i) == [kind |-> "manifest", of |-> i]

\* manifest.name of item i
NameOf(i) == i

EmptyCache == [uuid |-> FALSE, config |-> FALSE, authority |-> FALSE,
               items |-> <<>>]

\* items[idx]?.link
LinkOf(items, idx) == IF idx \in DOMAIN items THEN items[idx].link ELSE NoLink

\* items[idx]?.onChain || false
OnChainOf(items, idx) == IF idx \in DOMAIN items THEN items[idx].onChain ELSE FALSE

\* items[idx] = entry
SetItem(items, idx, entry) ==
    [k \in (DOMAIN items) \cup {idx} |-> IF k = idx THEN entry ELSE items[k]]

\* a power of two above every element of S
RECURSIVE UpperBound(_, _)
UpperBound(S, b) == IF \A x \in S : x < b THEN b ELSE UpperBound(S, 2 * b)

\* the elements of S in lo..(hi - 1), in ascending order
RECURSIVE SortedRange(_, _, _)
SortedRange(S, lo, hi) ==
    IF hi <= lo THEN <<>>
    ELSE IF hi = lo + 1 THEN (IF lo \in S THEN <<lo>> ELSE <<>>)
    ELSE LET mid == (lo + hi) \div 2
         IN SortedRange(S, lo, mid) \o SortedRange(S, mid, hi)

\* the elements of a set S of naturals in ascending order
SortedSeq(S) == SortedRange(S, 0, UpperBound(S, 1))

\* Object.keys(items): integer-like keys come in ascending numeric order
ObjectKeys(items) == SortedSeq(DOMAIN items)

\* a path <dir>/<stem>.<ext>
File(d, s, e) == [dir |-> d, stem |-> s, ext |-> e]

-----------------------------------------------------------------------------
(* Registry commit phase: upload.ts 113-174, part_000 writeIndices *)

\* chunks(Array.from(Array(n).keys()), 1000).length
NChunks(n) == (n + CHUNK_SIZE - 1) \div CHUNK_SIZE

\* allIndexesInSlice.length of chunk c (chunks are numbered from 0)
ChunkLen(n, c) == Min(CHUNK_SIZE, n - c * CHUNK_SIZE)

\* indexes = allIndexesInSlice.slice(offset, offset + 10), as the keys they
\* select: keys[i] for i in indexes
GroupMembers(ks, c, off) ==
    [j \in 1..Min(GROUP_SIZE, ChunkLen(Len(ks), c) - off) |->
        ks[c * CHUNK_SIZE + off + j]]

\* NeedsWrite without the skip check: every group is written
NeedsWriteAlways(items, ks, c, off) == TRUE

\* onChain.length != indexes.length
NeedsWrite(items, ks, c, off) ==
    \E j \in DOMAIN GroupMembers(ks, c, off) :
        ~OnChainOf(items, GroupMembers(ks, c, off)[j])

\* the for loop over the groups of a chunk, run from offset off up to the
\* next group it has to await a registry write for
RECURSIVE NextWrite(_, _, _, _)
NextWrite(items, ks, c, off) ==
    IF off >= ChunkLen(Len(ks), c) THEN Done
    ELSE IF NeedsWrite(items, ks, c, off) THEN off
    ELSE NextWrite(items, ks, c, off + GROUP_SIZE)

\* the arguments of anchorProgram.rpc.addConfigLines(ind, lines, ...)
WriteCall(items, ks, c, off) ==
    LET ms == GroupMembers(ks, c, off)
    IN [ind |-> ms[1],
        members |-> ms,
        lines |-> [j \in DOMAIN ms |->
                     [uri |-> LinkOf(items, ms[j]),
                      name |-> IF ms[j] \in DOMAIN items
                               THEN items[ms[j]].name ELSE -1]]]

\* items[k] = {...items[k], onChain: true} for every member k
MarkOnChain(items, ms) ==
    LET S == {ms[j] : j \in DOMAIN ms}
    IN [k \in (DOMAIN items) \cup S |->
          IF k \in S
          THEN IF k \in DOMAIN items
               THEN [items[k] EXCEPT !.onChain = TRUE]
               ELSE [link |-> NoLink, name |-> -1, onChain |-> TRUE]
          ELSE items[k]]

\* the calls issued by the chunks c, c+1, ... when each starts at offs[c]
RECURSIVE IssuedFrom(_, _, _, _)
IssuedFrom(items, ks, offs, c) ==
    IF c > Len(offs) THEN <<>>
    ELSE (IF offs[c] = Done THEN <<>>
          ELSE <<WriteCall(items, ks, c - 1, offs[c])>>)
         \o IssuedFrom(items, ks, offs, c + 1)

\* const keys = Object.keys(cache.items), and every chunk's async function
\* run up to its first await
EnterRegistry(items, log) ==
    /\ keys' = ObjectKeys(items)
    /\ chunkOff' = [c \in 1..NChunks(Len(keys')) |->
                       NextWrite(items, keys', c - 1, 0)]
    /\ writes' = log \o IssuedFrom(items, keys', chunkOff', 1)
    /\ pc' = "registry"

-----------------------------------------------------------------------------
(* upload.ts (v1): the list of images, 42-66 *)

\* f.replace(EXTENSION_PNG, '').split('/').pop(): the stem of a .png path,
\* the whole file name of any other path
SeenKeyOfFile(f) == [stem |-> f.stem, ext |-> IF f.ext = "png" THEN "" ELSE f.ext]

\* the key under which a cache key is looked up in seen
SeenKeyOfCacheKey(k) == [stem |-> k, ext |-> ""]

\* files.forEach(f => { if (!seen[key]) { seen[key] = true; newFiles.push(f) } })
RECURSIVE NewFilesOfFiles(_, _)
NewFilesOfFiles(fs, seen) ==
    IF fs = <<>> THEN <<>>
    ELSE IF SeenKeyOfFile(Head(fs)) \in seen
         THEN NewFilesOfFiles(Tail(fs), seen)
         ELSE <<Head(fs)>>
              \o NewFilesOfFiles(Tail(fs), seen \cup {SeenKeyOfFile(Head(fs))})

\* existingInCache.forEach(f => { if (!seen[f]) { ...; newFiles.push(f + '.png') } })
RECURSIVE NewFilesOfCache(_, _)
NewFilesOfCache(ks, seen) ==
    IF ks = <<>> THEN <<>>
    ELSE IF Len(ks) = 1
    THEN IF SeenKeyOfCacheKey(ks[1]) \in seen THEN <<>>
         ELSE <<File("", ks[1], "png")>>
    ELSE \* the first half, then the second half with the keys the first half
         \* has put into seen
         LET h == Len(ks) \div 2
         IN NewFilesOfCache(SubSeq(ks, 1, h), seen)
            \o NewFilesOfCache(SubSeq(ks, h + 1, Len(ks)),
                   seen \cup {SeenKeyOfCacheKey(ks[i]) : i \in 1..h})

IsPng(f) == f.ext = "png"

\* images = newFiles.filter(val => path.extname(val) === EXTENSION_PNG)
Images(fs, items) ==
    LET fromFiles == NewFilesOfFiles(fs, {})
        seen == {SeenKeyOfFile(fs[i]) : i \in DOMAIN fs}
    IN SelectSeq(fromFiles \o NewFilesOfCache(ObjectKeys(items), seen), IsPng)

\* path.basename(image).replace(EXTENSION_PNG, '') of the image at 0-based
\* position i
IndexAt(imgs, i) == imgs[i + 1].stem

-----------------------------------------------------------------------------
(* upload.ts (v1): upload_one_item, 179-276, and the window loop, 75-111 *)

\* FirstAwait without the check of the cached link: every item is uploaded
FirstAwaitNoSkip(m, imgs, i) ==
    IF i = 0 /\ ~m.uuid THEN "config" ELSE "upload"

\* upload_one_item(..., images[i], i, cacheContent, ...) run up to its first
\* await: the promise is awaiting createConfig ("config"), awaiting the
\* storage upload ("upload"), or already resolved to true ("ok")
FirstAwait(m, imgs, i) ==
    LET link == LinkOf(m.items, IndexAt(imgs, i))
    IN IF link = NoLink \/ ~m.uuid
       THEN IF i = 0 /\ ~m.uuid THEN "config"
            ELSE IF link = NoLink THEN "upload"
            ELSE "ok"
       ELSE "ok"

\* Window with one position more than BATCH_SIZE[storage]
WindowWide(imgs, st, c) == c .. (Min(c + BATCH_SIZE(st) + 1, Len(imgs)) - 1)

\* the positions of the window that starts at c
Window(imgs, st, c) == c .. (Min(c + BATCH_SIZE(st), Len(imgs)) - 1)

\* the number of positions in W that hold index x and have status s in t
CountOf(imgs, t, W, x, s) ==
    Cardinality({i \in W : IndexAt(imgs, i) = x /\ t[i + 1] = s})

\* the for loop that pushes the promises of the window that starts at c:
\* the state of every promise when the loop reaches await Promise.all
WindowTasks(m, imgs, st, c, old) ==
    [p \in 1..Len(imgs) |->
        IF (p - 1) \in Window(imgs, st, c) THEN FirstAwait(m, imgs, p - 1)
        ELSE old[p]]

\* the uploads counted in n plus those the promises of W have just issued
IssuedUploads(imgs, t, W, n) ==
    [x \in DOMAIN n |-> n[x] + CountOf(imgs, t, W, x, "upload")]

\* every index the run can meet
Universe(fs, items) == {fs[i].stem : i \in DOMAIN fs} \cup DOMAIN items

Ended == {"idle", "done", "aborted", "crashed"}

\* upload() of upload.ts from loadCache to the first await Promise.all
V1Start ==
    /\ impl = "v1"
    /\ pc \in Ended
    /\ run < MaxRuns
    /\ images' = Images(files, disk.items)
    /\ LET m == disk
           imgs == images'
           zero == [x \in Universe(files, m.items) |-> 0]
           idle == [p \in 1..Len(imgs) |-> "idle"]
       IN /\ mem' = m
          /\ startDisk' = disk
          /\ IF Len(imgs) > 0
             THEN /\ tasks' = WindowTasks(m, imgs, storage, 0, idle)
                  /\ pc' = "window"
                  /\ nUploads' = IssuedUploads(imgs, tasks',
                                               Window(imgs, storage, 0), zero)
                  /\ inits' = Cardinality({p \in DOMAIN tasks' : tasks'[p] = "config"})
                  /\ keys' = <<>>
                  /\ chunkOff' = <<>>
                  /\ writes' = <<>>
             ELSE /\ tasks' = idle
                  /\ nUploads' = zero
                  /\ inits' = 0
                  /\ EnterRegistry(m.items, <<>>)
    /\ run' = run + 1
    /\ ret' = "none"
    /\ cur' = 0
    /\ flag' = TRUE
    /\ upOk' = {}
    /\ upFail' = {}
    /\ wFail' = 0
    /\ needUpload' = <<>>
    /\ pos' = 0
    /\ batches' = <<>>
    /\ bst' = <<>>
    /\ bres' = <<>>
    /\ hist' = [hist EXCEPT !.initFailed = FALSE, !.wOk = {}, !.wFailed = {}]
    /\ UNCHANGED <<impl, storage, files, sizes, disk>>

\* createConfig resolves: upload_one_item stores uuid and config and goes on
\* to the storage upload of its own item if that has no link
V1CreateConfigOk(p) ==
    /\ impl = "v1"
    /\ pc \in {"window", "aborted"}
    /\ p \in DOMAIN tasks
    /\ tasks[p] = "config"
    /\ mem' = [mem EXCEPT !.uuid = TRUE, !.config = TRUE]
    /\ LET index == IndexAt(images, p - 1)
       IN IF LinkOf(startDisk.items, index) = NoLink
          THEN /\ tasks' = [tasks EXCEPT ![p] = "upload"]
               /\ nUploads' = [nUploads EXCEPT ![index] = @ + 1]
          ELSE /\ tasks' = [tasks EXCEPT ![p] = "ok"]
               /\ UNCHANGED nUploads
    /\ hist' = [hist EXCEPT !.created = TRUE]
    /\ UNCHANGED <<impl, storage, files, sizes, disk, pc, run, ret, images, cur,
                   flag, needUpload, pos, batches, bst, bres, keys, chunkOff,
                   startDisk, inits, writes, upOk, upFail, wFail>>

\* V1CreateConfigFail with the error swallowed: the promise resolves to false
\* and the run goes on
V1CreateConfigFailSwallowed(p) ==
    /\ impl = "v1"
    /\ pc = "window"
    /\ p \in DOMAIN tasks
    /\ tasks[p] = "config"
    /\ tasks' = [tasks EXCEPT ![p] = "fail"]
    /\ hist' = [hist EXCEPT !.initFailed = TRUE]
    /\ UNCHANGED <<impl, storage, files, sizes, disk, mem, pc, ret, run, images,
                   cur, flag, needUpload, pos, batches, bst, bres, keys, chunkOff,
                   startDisk, nUploads, inits, writes, upOk, upFail, wFail>>

\* createConfig rejects: upload_one_item rethrows, Promise.all rejects and
\* upload() rejects with it
V1CreateConfigFail(p) ==
    /\ impl = "v1"
    /\ pc = "window"
    /\ p \in DOMAIN tasks
    /\ tasks[p] = "config"
    /\ tasks' = [tasks EXCEPT ![p] = "rejected"]
    /\ pc' = "aborted"
    /\ ret' = "raised"
    /\ hist' = [hist EXCEPT !.initFailed = TRUE]
    /\ UNCHANGED <<impl, storage, files, sizes, disk, mem, run, images, cur,
                   flag, needUpload, pos, batches, bst, bres, keys, chunkOff,
                   startDisk, nUploads, inits, writes, upOk, upFail, wFail>>

\* RecordLink that stores the entry without the link
RecordLinkLost(m, index, link) ==
    [m EXCEPT !.items = SetItem(@, index, [link |-> NoLink, name |-> NameOf(index),
                                          onChain |-> FALSE]),
              !.authority = TRUE]

\* cacheContent.items[index] = { link, name: manifest.name, onChain: false }
\* cacheContent.authority = walletKeyPair.publicKey.toBase58()
RecordLink(m, index, link) ==
    [m EXCEPT !.items = SetItem(@, index, [link |-> link, name |-> NameOf(index),
                                          onChain |-> FALSE]),
              !.authority = TRUE]

\* the storage upload of the item at position p resolves with a link
V1UploadOk(p) ==
    /\ impl = "v1"
    /\ pc \in {"window", "aborted"}
    /\ p \in DOMAIN tasks
    /\ tasks[p] = "upload"
    /\ LET index == IndexAt(images, p - 1)
       IN /\ mem' = RecordLink(mem, index, ItemLink(index))
          /\ upOk' = upOk \cup {index}
    /\ tasks' = [tasks EXCEPT ![p] = "ok"]
    /\ UNCHANGED <<hist, impl, storage, files, sizes, disk, pc, run, ret, images,
                   cur, flag, needUpload, pos, batches, bst, bres, keys, chunkOff,
                   startDisk, nUploads, inits, writes, upFail, wFail>>

\* the storage upload of the item at position p rejects: upload_one_item
\* catches, logs and resolves to false
V1UploadFail(p) ==
    /\ impl = "v1"
    /\ pc \in {"window", "aborted"}
    /\ p \in DOMAIN tasks
    /\ tasks[p] = "upload"
    /\ upFail' = upFail \cup {IndexAt(images, p - 1)}
    /\ tasks' = [tasks EXCEPT ![p] = "fail"]
    /\ UNCHANGED <<hist, impl, storage, files, sizes, disk, mem, pc, run, ret,
                   images, cur, flag, needUpload, pos, batches, bst, bres, keys,
                   chunkOff, startDisk, nUploads, inits, writes, upOk, wFail>>

\* WindowFlag without && uploadSuccessful: only the last window counts
WindowFlagLast(t, W, f) == \A i \in W : t[i + 1] = "ok"

\* (await Promise.all(promises)).every(x => x) && uploadSuccessful
WindowFlag(t, W, f) == (\A i \in W : t[i + 1] = "ok") /\ f

\* await Promise.all(promises) resolves: the flag is updated, the cache is
\* saved, and the loop either pushes the promises of the next window or ends
\* and the registry commit phase starts
V1WindowSettled ==
    /\ impl = "v1"
    /\ pc = "window"
    /\ LET W == Window(images, storage, cur)
           next == cur + BATCH_SIZE(storage)
           t == WindowTasks(mem, images, storage, next, tasks)
       IN /\ \A i \in W : tasks[i + 1] \in {"ok", "fail"}
          /\ flag' = WindowFlag(tasks, W, flag)
          /\ disk' = mem
          /\ cur' = next
          /\ IF next < Len(images)
             THEN /\ tasks' = t
                  /\ nUploads' = IssuedUploads(images, t,
                                               Window(images, storage, next), nUploads)
                  /\ UNCHANGED <<pc, keys, chunkOff, writes>>
             ELSE /\ EnterRegistry(mem.items, writes)
                  /\ UNCHANGED <<tasks, nUploads>>
    /\ UNCHANGED <<hist, impl, storage, files, sizes, mem, run, ret, images,
                   needUpload, pos, batches, bst, bres, startDisk, inits,
                   upOk, upFail, wFail>>

-----------------------------------------------------------------------------
(* Registry commit phase, the steps: upload.ts 134-176, part_000 129-168 *)

\* WriteOk in which the chunk saves the cache it saw when the phase began
\* with only its own marks added
WriteOkStaleSave(c) ==
    /\ pc = "registry"
    /\ c \in DOMAIN chunkOff
    /\ chunkOff[c] # Done
    /\ LET items == MarkOnChain(mem.items, GroupMembers(keys, c - 1, chunkOff[c]))
           next == NextWrite(items, keys, c - 1, chunkOff[c] + GROUP_SIZE)
       IN /\ mem' = [mem EXCEPT !.items = items]
          /\ disk' = [mem EXCEPT !.items =
                        MarkOnChain(startDisk.items,
                                    GroupMembers(keys, c - 1, chunkOff[c]))]
          /\ chunkOff' = [chunkOff EXCEPT ![c] = next]
          /\ writes' = IF next = Done THEN writes
                       ELSE Append(writes, WriteCall(items, keys, c - 1, next))
    /\ hist' = [hist EXCEPT !.wOk = @ \cup
                   {GroupMembers(keys, c - 1, chunkOff[c])[j] :
                       j \in DOMAIN GroupMembers(keys, c - 1, chunkOff[c])}]
    /\ UNCHANGED <<impl, storage, files, sizes, pc, run, ret, images, cur, tasks,
                   flag, needUpload, pos, batches, bst, bres, keys, startDisk,
                   nUploads, inits, upOk, upFail, wFail>>

\* addConfigLines of the group chunk c awaits resolves: its members are
\* marked onChain, the cache is saved, and the chunk's loop runs on to the
\* next group it has to write
WriteOk(c) ==
    /\ pc = "registry"
    /\ c \in DOMAIN chunkOff
    /\ chunkOff[c] # Done
    /\ LET items == MarkOnChain(mem.items, GroupMembers(keys, c - 1, chunkOff[c]))
           next == NextWrite(items, keys, c - 1, chunkOff[c] + GROUP_SIZE)
       IN /\ mem' = [mem EXCEPT !.items = items]
          /\ disk' = mem'
          /\ chunkOff' = [chunkOff EXCEPT ![c] = next]
          /\ writes' = IF next = Done THEN writes
                       ELSE Append(writes, WriteCall(items, keys, c - 1, next))
    /\ hist' = [hist EXCEPT !.wOk = @ \cup
                   {GroupMembers(keys, c - 1, chunkOff[c])[j] :
                       j \in DOMAIN GroupMembers(keys, c - 1, chunkOff[c])}]
    /\ UNCHANGED <<impl, storage, files, sizes, pc, run, ret, images, cur, tasks,
                   flag, needUpload, pos, batches, bst, bres, keys, startDisk,
                   nUploads, inits, upOk, upFail, wFail>>

\* the catch clause of a group: v1 clears uploadSuccessful, v2 only logs
FlagAfterWriteFail(im, f) == IF im = "v1" THEN FALSE ELSE f

\* WriteFail that leaves the loop of the chunk at the failed group
WriteFailStops(c) ==
    /\ pc = "registry"
    /\ c \in DOMAIN chunkOff
    /\ chunkOff[c] # Done
    /\ chunkOff' = [chunkOff EXCEPT ![c] = Done]
    /\ flag' = FlagAfterWriteFail(impl, flag)
    /\ wFail' = wFail + 1
    /\ hist' = [hist EXCEPT !.wFailed = @ \cup
                   {GroupMembers(keys, c - 1, chunkOff[c])[j] :
                       j \in DOMAIN GroupMembers(keys, c - 1, chunkOff[c])}]
    /\ UNCHANGED <<impl, storage, files, sizes, disk, mem, pc, run, ret, images,
                   cur, tasks, needUpload, pos, batches, bst, bres, keys,
                   startDisk, nUploads, inits, upOk, upFail, writes>>

\* addConfigLines of the group chunk c awaits rejects: the failure is logged
\* and the chunk's loop runs on to the next group it has to write
WriteFail(c) ==
    /\ pc = "registry"
    /\ c \in DOMAIN chunkOff
    /\ chunkOff[c] # Done
    /\ LET next == NextWrite(mem.items, keys, c - 1, chunkOff[c] + GROUP_SIZE)
       IN /\ chunkOff' = [chunkOff EXCEPT ![c] = next]
          /\ writes' = IF next = Done THEN writes
                       ELSE Append(writes, WriteCall(mem.items, keys, c - 1, next))
    /\ flag' = FlagAfterWriteFail(impl, flag)
    /\ wFail' = wFail + 1
    /\ hist' = [hist EXCEPT !.wFailed = @ \cup
                   {GroupMembers(keys, c - 1, chunkOff[c])[j] :
                       j \in DOMAIN GroupMembers(keys, c - 1, chunkOff[c])}]
    /\ UNCHANGED <<impl, storage, files, sizes, disk, mem, pc, run, ret, images,
                   cur, tasks, needUpload, pos, batches, bst, bres, keys,
                   startDisk, nUploads, inits, upOk, upFail>>

\* return uploadSuccessful (v1); writeIndices returns nothing (v2)
ReturnValue(im, f) ==
    IF im = "v1" THEN (IF f THEN "true" ELSE "false") ELSE "undefined"

\* await Promise.all(chunks...) resolves: the finally clause saves the cache
\* and upload() returns
RegistryFinish ==
    /\ pc = "registry"
    /\ \A c \in DOMAIN chunkOff : chunkOff[c] = Done
    /\ disk' = mem
    /\ pc' = "done"
    /\ ret' = ReturnValue(impl, flag)
    /\ UNCHANGED <<hist, impl, storage, files, sizes, mem, run, images, cur,
                   tasks, flag, needUpload, pos, batches, bst, bres, keys, chunkOff,
                   startDisk, nUploads, inits, writes, upOk, upFail, wFail>>

\* the process is killed in the middle of a run: only the cache file survives
Crash ==
    /\ pc \notin Ended
    /\ pc' = "crashed"
    /\ UNCHANGED <<hist, impl, storage, files, sizes, disk, mem, run, ret, images,
                   cur, tasks, flag, needUpload, pos, batches, bst, bres, keys,
                   chunkOff, startDisk, nUploads, inits, writes, upOk, upFail,
                   wFail>>

-----------------------------------------------------------------------------
(* part_000 (v2): getItemsNeedingUpload, 89-98 *)

\* path.basename(filePath, path.extname(filePath))
Stem(f) == f.stem

\* Uniq that keeps the duplicates
RECURSIVE UniqKeepAll(_, _)
UniqKeepAll(xs, seen) == xs

\* [...new Set(xs)]: the first occurrence of every element, in order
RECURSIVE Uniq(_, _)
Uniq(xs, seen) ==
    IF xs = <<>> THEN <<>>
    ELSE IF Len(xs) = 1
    THEN IF xs[1] \in seen THEN <<>> ELSE xs
    ELSE \* the first half, then the second half without what the first half
         \* holds
         LET h == Len(xs) \div 2
         IN Uniq(SubSeq(xs, 1, h), seen)
            \o Uniq(SubSeq(xs, h + 1, Len(xs)), seen \cup {xs[i] : i \in 1..h})

\* getItemsNeedingUpload with the file stems spread before the cache keys
getItemsNeedingUploadFilesFirst(items, fs) ==
    LET all == Uniq([i \in DOMAIN fs |-> Stem(fs[i])] \o ObjectKeys(items), {})
        NoLinkYet(idx) == LinkOf(items, idx) = NoLink
    IN SelectSeq(all, NoLinkYet)

\* items whose entry has no link are listed as well as keys and file stems
getItemsNeedingUpload(items, fs) ==
    LET all == Uniq(ObjectKeys(items) \o [i \in DOMAIN fs |-> Stem(fs[i])], {})
        NoLinkYet(idx) == LinkOf(items, idx) = NoLink
    IN SelectSeq(all, NoLinkYet)

-----------------------------------------------------------------------------
(* arweave-bundle.ts: getBatchRange, 33-50, and the planning loop, 108-114 *)

Thrown == -2

\* BatchRangeFrom with total > BATCH_SIZE_LIMIT for total >= BATCH_SIZE_LIMIT
RECURSIVE BatchRangeFromGt(_, _, _, _)
BatchRangeFromGt(items, sz, total, range) ==
    IF items = <<>> THEN range
    ELSE LET t == total + sz[Head(items)]
         IN IF t > BATCH_SIZE_LIMIT
            THEN (IF range = 0 THEN Thrown ELSE range)
            ELSE BatchRangeFromGt(Tail(items), sz, t, range + 1)

\* BatchRangeFrom without the throw: an oversized first item is a batch
RECURSIVE BatchRangeFromNoThrow(_, _, _, _)
BatchRangeFromNoThrow(items, sz, total, range) ==
    IF items = <<>> THEN range
    ELSE LET t == total + sz[Head(items)]
         IN IF t >= BATCH_SIZE_LIMIT
            THEN (IF range = 0 THEN 1 ELSE range)
            ELSE BatchRangeFromNoThrow(Tail(items), sz, t, range + 1)

\* the for loop of getBatchRange over the remaining items
RECURSIVE BatchRangeFrom(_, _, _, _)
BatchRangeFrom(items, sz, total, range) ==
    IF items = <<>> THEN range
    ELSE LET t == total + sz[Head(items)]
         IN IF t >= BATCH_SIZE_LIMIT
            THEN (IF range = 0 THEN Thrown ELSE range)
            ELSE BatchRangeFrom(Tail(items), sz, t, range + 1)

getBatchRange(sz, items) == BatchRangeFrom(items, sz, 0, 0)

\* while (items.length) { batches.push(items.splice(0, getBatchRange(...))) }
RECURSIVE PlanBatches(_, _, _)
PlanBatches(items, sz, acc) ==
    IF items = <<>> THEN [ok |-> TRUE, batches |-> acc]
    ELSE LET range == getBatchRange(sz, items)
         IN IF range = Thrown THEN [ok |-> FALSE, batches |-> acc]
            ELSE PlanBatches(SubSeq(items, range + 1, Len(items)), sz,
                             Append(acc, SubSeq(items, 1, range)))

\* the elements of the sequences of a sequence, in order
RECURSIVE Flatten(_)
Flatten(ss) == IF ss = <<>> THEN <<>> ELSE Head(ss) \o Flatten(Tail(ss))

\* the number of positions of xs that hold x
Occurrences(xs, x) == Cardinality({i \in DOMAIN xs : xs[i] = x})

-----------------------------------------------------------------------------
(* arweave-bundle.ts: the two phases of a batch, 116-136 *)

\* uploadBatchBundle(getImageDataItems(batch)): one link per image, in order
ImageLinks(batch) == [j \in DOMAIN batch |-> ImageLink(batch[j])]

\* getUpdatedManifests that patches every manifest with the first image link
getUpdatedManifestsFirstLink(batch, imageLinks) ==
    [j \in DOMAIN batch |->
        [item |-> batch[j], name |-> NameOf(batch[j]), image |-> imageLinks[1]]]

\* getUpdatedManifests(batch, dirname, imageLinks)
getUpdatedManifests(batch, imageLinks) ==
    [j \in DOMAIN batch |->
        [item |-> batch[j], name |-> NameOf(batch[j]), image |-> imageLinks[j]]]

\* uploadBatchBundle(getManifestDataItems(manifests)): one link per manifest
ManifestLinks(manifests) ==
    [j \in DOMAIN manifests |-> ManifestLink(manifests[j].item)]

NoResult == [updatedManifests |-> <<>>, manifestLinks |-> <<>>, indices |-> <<>>]

\* part_000 171-180
RECURSIVE saveManifestsWithLink(_, _, _, _)
saveManifestsWithLink(items, manifests, links, indices) ==
    IF manifests = <<>> THEN items
    ELSE saveManifestsWithLink(
             SetItem(items, Head(indices),
                     [link |-> Head(links), name |-> Head(manifests).name,
                      onChain |-> FALSE]),
             Tail(manifests), Tail(links), Tail(indices))

-----------------------------------------------------------------------------
(* part_000 (v2): upload, 182-288, and initConfig, 38-82 *)

\* part_000 257-287 up to the next await: with a cached config writeIndices
\* starts at once, otherwise initConfig calls createConfig
ConfigPhase(m, log, n) ==
    IF m.config
    THEN /\ EnterRegistry(m.items, log)
         /\ inits' = n
    ELSE /\ pc' = "init"
         /\ inits' = n + 1
         /\ keys' = <<>>
         /\ chunkOff' = <<>>
         /\ writes' = log

\* upload() of part_000 from loadCache to its first await
V2Start ==
    /\ impl = "v2"
    /\ pc \in Ended
    /\ run < MaxRuns
    /\ LET m == disk
           need == getItemsNeedingUpload(m.items, files)
           zero == [x \in Universe(files, m.items) |-> 0]
           plan == PlanBatches(need, sizes, <<>>)
       IN /\ mem' = m
          /\ startDisk' = disk
          /\ needUpload' = need
          /\ IF need # <<>>
             THEN IF storage = ArweaveNative
                  THEN IF plan.ok
                       THEN /\ batches' = plan.batches
                            /\ bst' = [b \in DOMAIN plan.batches |-> "image"]
                            /\ bres' = [b \in DOMAIN plan.batches |-> NoResult]
                            /\ nUploads' = [x \in DOMAIN zero |->
                                   Occurrences(Flatten(plan.batches), x)]
                            /\ pc' = "bundle"
                            /\ ret' = "none"
                            /\ pos' = 0
                            /\ inits' = 0
                            /\ keys' = <<>>
                            /\ chunkOff' = <<>>
                            /\ writes' = <<>>
                       ELSE /\ batches' = <<>>
                            /\ bst' = <<>>
                            /\ bres' = <<>>
                            /\ nUploads' = zero
                            /\ pc' = "aborted"
                            /\ ret' = "raised"
                            /\ pos' = 0
                            /\ inits' = 0
                            /\ keys' = <<>>
                            /\ chunkOff' = <<>>
                            /\ writes' = <<>>
                  ELSE /\ pos' = 1
                       /\ nUploads' = [zero EXCEPT ![need[1]] = 1]
                       /\ pc' = "loop"
                       /\ ret' = "none"
                       /\ batches' = <<>>
                       /\ bst' = <<>>
                       /\ bres' = <<>>
                       /\ inits' = 0
                       /\ keys' = <<>>
                       /\ chunkOff' = <<>>
                       /\ writes' = <<>>
             ELSE /\ ConfigPhase(m, <<>>, 0)
                  /\ nUploads' = zero
                  /\ ret' = "none"
                  /\ pos' = 0
                  /\ batches' = <<>>
                  /\ bst' = <<>>
                  /\ bres' = <<>>
    /\ run' = run + 1
    /\ upOk' = {}
    /\ upFail' = {}
    /\ wFail' = 0
    /\ images' = <<>>
    /\ cur' = 0
    /\ tasks' = <<>>
    /\ flag' = TRUE
    /\ hist' = [hist EXCEPT !.initFailed = FALSE, !.wOk = {}, !.wFailed = {}]
    /\ UNCHANGED <<impl, storage, files, sizes, disk>>

\* the awaited ipfsUpload / awsUpload / arweaveUpload of needUpload[pos]
\* resolves: its result is dropped and the loop goes on to the next item, or
\* ends
V2LoopUploadOk ==
    /\ impl = "v2"
    /\ pc = "loop"
    /\ upOk' = upOk \cup {needUpload[pos]}
    /\ IF pos < Len(needUpload)
       THEN /\ pos' = pos + 1
            /\ nUploads' = [nUploads EXCEPT ![needUpload[pos + 1]] = @ + 1]
            /\ UNCHANGED <<pc, inits, keys, chunkOff, writes>>
       ELSE /\ ConfigPhase(mem, writes, inits)
            /\ UNCHANGED <<pos, nUploads>>
    /\ UNCHANGED <<hist, impl, storage, files, sizes, disk, mem, run, ret, images,
                   cur, tasks, flag, needUpload, batches, bst, bres, startDisk,
                   upFail, wFail>>

\* the awaited upload of needUpload[pos] rejects: upload() rejects with it
V2LoopUploadFail ==
    /\ impl = "v2"
    /\ pc = "loop"
    /\ upFail' = upFail \cup {needUpload[pos]}
    /\ pc' = "aborted"
    /\ ret' = "raised"
    /\ UNCHANGED <<hist, impl, storage, files, sizes, disk, mem, run, images,
                   cur, tasks, flag, needUpload, pos, batches, bst, bres, keys,
                   chunkOff, startDisk, nUploads, inits, writes, upOk, wFail>>

BatchSet(b) == {batches[b][j] : j \in DOMAIN batches[b]}

\* V2ImageOk that also records the image links of the batch in the cache
V2ImageOkRecording(b) ==
    /\ impl = "v2"
    /\ pc \in {"bundle", "aborted"}
    /\ b \in DOMAIN bst
    /\ bst[b] = "image"
    /\ bst' = [bst EXCEPT ![b] = "manifest"]
    /\ bres' = [bres EXCEPT ![b].updatedManifests =
                   getUpdatedManifests(batches[b], ImageLinks(batches[b]))]
    /\ mem' = [mem EXCEPT !.items =
                   saveManifestsWithLink(@, bres'[b].updatedManifests,
                                         ImageLinks(batches[b]), batches[b])]
    /\ UNCHANGED <<hist, impl, storage, files, sizes, disk, pc, run, ret,
                   images, cur, tasks, flag, needUpload, pos, batches, keys, chunkOff,
                   startDisk, nUploads, inits, writes, upOk, upFail, wFail>>

\* the image bundle of batch b is posted: the manifests are patched with the
\* image links and the manifest bundle is built and sent
V2ImageOk(b) ==
    /\ impl = "v2"
    /\ pc \in {"bundle", "aborted"}
    /\ b \in DOMAIN bst
    /\ bst[b] = "image"
    /\ bst' = [bst EXCEPT ![b] = "manifest"]
    /\ bres' = [bres EXCEPT ![b].updatedManifests =
                   getUpdatedManifests(batches[b], ImageLinks(batches[b]))]
    /\ UNCHANGED <<hist, impl, storage, files, sizes, disk, mem, pc, run, ret,
                   images, cur, tasks, flag, needUpload, pos, batches, keys, chunkOff,
                   startDisk, nUploads, inits, writes, upOk, upFail, wFail>>

\* a bundle upload of batch b rejects, in the image phase or in the manifest
\* phase: the batch's promise rejects, and with it Promise.all and upload()
V2BundleFail(b) ==
    /\ impl = "v2"
    /\ pc \in {"bundle", "aborted"}
    /\ b \in DOMAIN bst
    /\ bst[b] \in {"image", "manifest"}
    /\ bst' = [bst EXCEPT ![b] = IF bst[b] = "image" THEN "imageFailed"
                                 ELSE "manifestFailed"]
    /\ upFail' = upFail \cup BatchSet(b)
    /\ pc' = "aborted"
    /\ ret' = "raised"
    /\ UNCHANGED <<hist, impl, storage, files, sizes, disk, mem, run, images,
                   cur, tasks, flag, needUpload, pos, batches, bres, keys, chunkOff,
                   startDisk, nUploads, inits, writes, upOk, wFail>>

\* the manifest bundle of batch b is posted: the batch's promise resolves to
\* [updatedManifests, manifestLinks, indices]
V2ManifestOk(b) ==
    /\ impl = "v2"
    /\ pc \in {"bundle", "aborted"}
    /\ b \in DOMAIN bst
    /\ bst[b] = "manifest"
    /\ bst' = [bst EXCEPT ![b] = "done"]
    /\ bres' = [bres EXCEPT ![b].manifestLinks = ManifestLinks(bres[b].updatedManifests),
                            ![b].indices = batches[b]]
    /\ upOk' = upOk \cup BatchSet(b)
    /\ UNCHANGED <<hist, impl, storage, files, sizes, disk, mem, pc, run, ret,
                   images, cur, tasks, flag, needUpload, pos, batches, keys, chunkOff,
                   startDisk, nUploads, inits, writes, upFail, wFail>>

\* bundleUploads.reduce(...) followed by saveManifestsWithLink: the links of
\* all batches written to the cache
AllBundleLinks(items, res) ==
    saveManifestsWithLink(items,
        Flatten([b \in DOMAIN res |-> res[b].updatedManifests]),
        Flatten([b \in DOMAIN res |-> res[b].manifestLinks]),
        Flatten([b \in DOMAIN res |-> res[b].indices]))

\* await arweaveBundleUpload(...) resolves: every batch is done, the links
\* are saved and the run goes on to the registry
V2BundleSettled ==
    /\ impl = "v2"
    /\ pc = "bundle"
    /\ \A b \in DOMAIN bst : bst[b] = "done"
    /\ mem' = [mem EXCEPT !.items = AllBundleLinks(@, bres)]
    /\ disk' = mem'
    /\ ConfigPhase(mem', writes, inits)
    /\ UNCHANGED <<hist, impl, storage, files, sizes, run, ret, images, cur,
                   tasks, flag, needUpload, pos, batches, bst, bres, startDisk,
                   nUploads, upOk, upFail, wFail>>

\* createConfig resolves in initConfig: uuid and config are stored, the cache
\* is saved and writeIndices starts
V2InitOk ==
    /\ impl = "v2"
    /\ pc = "init"
    /\ mem' = [mem EXCEPT !.uuid = TRUE, !.config = TRUE]
    /\ disk' = mem'
    /\ EnterRegistry(mem'.items, writes)
    /\ hist' = [hist EXCEPT !.created = TRUE]
    /\ UNCHANGED <<impl, storage, files, sizes, run, ret, images, cur, tasks,
                   flag, needUpload, pos, batches, bst, bres, startDisk,
                   nUploads, inits, upOk, upFail, wFail>>

\* createConfig rejects in initConfig: the error is logged and rethrown
V2InitFail ==
    /\ impl = "v2"
    /\ pc = "init"
    /\ pc' = "aborted"
    /\ ret' = "raised"
    /\ hist' = [hist EXCEPT !.initFailed = TRUE]
    /\ UNCHANGED <<impl, storage, files, sizes, disk, mem, run, images, cur,
                   tasks, flag, needUpload, pos, batches, bst, bres, keys,
                   chunkOff, startDisk, nUploads, inits, writes, upOk, upFail,
                   wFail>>

-----------------------------------------------------------------------------
(* Initial states: the arguments of the command and the cache file it finds *)

Impls == {"v1", "v2"}

Storages(im) ==
    IF im = "v1" THEN {"arweave", "ipfs", "aws"}
    ELSE {ArweaveNative, "arweave", "ipfs", "aws"}

\* the files 0.png .. (n-1).png of directory a
FilesUpTo(n) == [i \in 1..n |-> File("a", i - 1, "png")]

FileLists ==
    { FilesUpTo(1),
      FilesUpTo(3),
      FilesUpTo(NumFiles),
      \* an index named twice, and a manifest passed along with the images
      <<File("a", 0, "png"), File("a", 0, "json"), File("a", 1, "png"),
        File("a", 2, "png"), File("b", 2, "png")>> }

\* the link an earlier run with these arguments recorded for item i
LinkFor(st, i) == IF st = ArweaveNative THEN ManifestLink(i) ELSE ItemLink(i)

\* the cache file left by earlier runs that uploaded the items 0..n-1 and
\* committed the items 0..k-1 to the registry
CacheWith(im, st, n, k) ==
    [uuid |-> TRUE, config |-> TRUE, authority |-> (im = "v1"),
     items |-> [i \in 0..(n - 1) |->
                  [link |-> LinkFor(st, i), name |-> NameOf(i), onChain |-> i < k]]]

InitCaches(im, st) ==
    { EmptyCache,
      CacheWith(im, st, 3, 3),
      CacheWith(im, st, 2, 0),
      CacheWith(im, st, BigCache, GROUP_SIZE) }

SizeChoices == {10 * MB, 20 * MB, 30 * MB, 50 * MB}

\* the image sizes: item i has size pattern[i % 3]
SizeProfiles(S) ==
    {[i \in S |-> pattern[(i % 3) + 1]] : pattern \in [1..3 -> SizeChoices]}

Init ==
    /\ impl \in Impls
    /\ storage \in Storages(impl)
    /\ files \in FileLists
    /\ disk \in InitCaches(impl, storage)
    /\ sizes \in IF storage = ArweaveNative
                 THEN SizeProfiles(Universe(files, disk.items))
                 ELSE {[i \in Universe(files, disk.items) |-> 10 * MB]}
    /\ mem = EmptyCache
    /\ pc = "idle"
    /\ run = 0
    /\ ret = "none"
    /\ images = <<>>
    /\ cur = 0
    /\ tasks = <<>>
    /\ flag = TRUE
    /\ needUpload = <<>>
    /\ pos = 0
    /\ batches = <<>>
    /\ bst = <<>>
    /\ bres = <<>>
    /\ keys = <<>>
    /\ chunkOff = <<>>
    /\ startDisk = disk
    /\ nUploads = [x \in Universe(files, disk.items) |-> 0]
    /\ inits = 0
    /\ writes = <<>>
    /\ upOk = {}
    /\ upFail = {}
    /\ wFail = 0
    /\ hist = [initFailed |-> FALSE, created |-> FALSE, wOk |-> {}, wFailed |-> {}]

Next ==
    \/ V1Start
    \/ \E p \in DOMAIN tasks : V1CreateConfigOk(p)
    \/ \E p \in DOMAIN tasks : V1CreateConfigFail(p)
    \/ \E p \in DOMAIN tasks : V1UploadOk(p)
    \/ \E p \in DOMAIN tasks : V1UploadFail(p)
    \/ V1WindowSettled
    \/ V2Start
    \/ V2LoopUploadOk
    \/ V2LoopUploadFail
    \/ \E b \in DOMAIN bst : V2ImageOk(b)
    \/ \E b \in DOMAIN bst : V2BundleFail(b)
    \/ \E b \in DOMAIN bst : V2ManifestOk(b)
    \/ V2BundleSettled
    \/ V2InitOk
    \/ V2InitFail
    \/ \E c \in DOMAIN chunkOff : WriteOk(c)
    \/ \E c \in DOMAIN chunkOff : WriteFail(c)
    \/ RegistryFinish
    \/ Crash

Spec == Init /\ [][Next]_vars

-----------------------------------------------------------------------------
(* The item selection on its own: upload() of both commands up to the first
   await, over cache files whose entries may lack a link and over file lists
   in any order *)

MaxKey == 3

\* a cache entry as the data model allows it: link present or absent
SelectorEntries(i) ==
    { [link |-> ItemLink(i), name |-> NameOf(i), onChain |-> FALSE],
      [link |-> NoLink, name |-> NameOf(i), onChain |-> FALSE] }

\* the cache files over the keys 0..MaxKey
SelectorCaches ==
    UNION { { [uuid |-> TRUE, config |-> TRUE, authority |-> TRUE, items |-> it] :
                it \in { f \in [K -> UNION {SelectorEntries(i) : i \in K}] :
                           \A i \in K : f[i] \in SelectorEntries(i) } } :
            K \in SUBSET (0..MaxKey) }

SelectorFiles ==
    FileLists \cup
    { \* stems out of numeric order, one named twice, one with a manifest only
      <<File("a", 4, "png"), File("a", 1, "png"), File("b", 4, "png"),
        File("a", 5, "json"), File("a", 0, "png")>>,
      <<File("a", 2, "png"), File("a", 0, "png")>> }

InitSelector ==
    /\ impl \in Impls
    /\ storage \in {"arweave", "ipfs"}
    /\ files \in SelectorFiles
    /\ disk \in SelectorCaches
    /\ sizes = [i \in Universe(files, disk.items) |-> 10 * MB]
    /\ mem = EmptyCache
    /\ pc = "idle"
    /\ run = 0
    /\ ret = "none"
    /\ images = <<>>
    /\ cur = 0
    /\ tasks = <<>>
    /\ flag = TRUE
    /\ needUpload = <<>>
    /\ pos = 0
    /\ batches = <<>>
    /\ bst = <<>>
    /\ bres = <<>>
    /\ keys = <<>>
    /\ chunkOff = <<>>
    /\ startDisk = disk
    /\ nUploads = [x \in Universe(files, disk.items) |-> 0]
    /\ inits = 0
    /\ writes = <<>>
    /\ upOk = {}
    /\ upFail = {}
    /\ wFail = 0
    /\ hist = [initFailed |-> FALSE, created |-> FALSE, wOk |-> {}, wFailed |-> {}]

NextSelector ==
    \/ V1Start
    \/ V2Start

SpecSelector == InitSelector /\ [][NextSelector]_vars

-----------------------------------------------------------------------------
(* The commit phase over more than one chunk of 1000 keys: runs that find a
   cache file with every item uploaded and the last groups not yet written *)

HugeCache == 1005

\* the groups of the first chunk that are not on chain yet
OpenGroups == 3

InitChunks ==
    /\ impl \in Impls
    /\ storage = "arweave"
    /\ files = FilesUpTo(1)
    /\ disk = CacheWith(impl, storage, HugeCache,
                        CHUNK_SIZE - OpenGroups * GROUP_SIZE)
    /\ sizes = [i \in Universe(files, disk.items) |-> 10 * MB]
    /\ mem = EmptyCache
    /\ pc = "idle"
    /\ run = 0
    /\ ret = "none"
    /\ images = <<>>
    /\ cur = 0
    /\ tasks = <<>>
    /\ flag = TRUE
    /\ needUpload = <<>>
    /\ pos = 0
    /\ batches = <<>>
    /\ bst = <<>>
    /\ bres = <<>>
    /\ keys = <<>>
    /\ chunkOff = <<>>
    /\ startDisk = disk
    /\ nUploads = [x \in Universe(files, disk.items) |-> 0]
    /\ inits = 0
    /\ writes = <<>>
    /\ upOk = {}
    /\ upFail = {}
    /\ wFail = 0
    /\ hist = [initFailed |-> FALSE, created |-> FALSE, wOk |-> {}, wFailed |-> {}]

NextChunks ==
    \/ V1Start
    \/ V1WindowSettled
    \/ V2Start
    \/ \E c \in DOMAIN chunkOff : WriteOk(c)
    \/ \E c \in DOMAIN chunkOff : WriteFail(c)
    \/ RegistryFinish
    \/ Crash

SpecChunks == InitChunks /\ [][NextChunks]_vars

-----------------------------------------------------------------------------
(* Properties *)

\* the sum of the image sizes of the items of a batch
RECURSIVE SizeOf(_)
SizeOf(batch) == IF batch = <<>> THEN 0 ELSE sizes[Head(batch)] + SizeOf(Tail(batch))

\* every item of the cache has a link and is on chain, the registry handle is
\* there, and the file list names no index the cache does not know
FullyOnChain(c, fs) ==
    /\ c.config
    /\ c.uuid
    /\ \A k \in DOMAIN c.items : c.items[k].link # NoLink /\ c.items[k].onChain
    /\ \A i \in DOMAIN fs : fs[i].stem \in DOMAIN c.items

\* C1: a run that starts from a fully on-chain cache, with a registry handle
\* and no file unknown to the cache, issues no storage upload, no createConfig
\* and no addConfigLines, and leaves the cache file and the in-memory cache as
\* loaded.
C1_IdempotentResume ==
    (run > 0 /\ FullyOnChain(startDisk, files)) =>
        /\ \A x \in DOMAIN nUploads : nUploads[x] = 0
        /\ inits = 0
        /\ writes = <<>>
        /\ disk = startDisk
        /\ mem = startDisk

C1_Witness ==
    /\ pc = "done"
    /\ FullyOnChain(startDisk, files)
    /\ DOMAIN startDisk.items # {}
    /\ Len(files) > 1

\* C2: when every pending item is smaller than the ceiling, the planned
\* batches are non-empty, concatenate to the pending list, each stays below
\* the ceiling, each is closed only where the next pending item would make it
\* meet or exceed the ceiling, and sizes [30MB, 30MB, 10MB] give two batches
\* of one and two items.
C2_GreedyBatches ==
    (/\ impl = "v2"
     /\ storage = ArweaveNative
     /\ run > 0
     /\ \A j \in DOMAIN needUpload : sizes[needUpload[j]] < BATCH_SIZE_LIMIT) =>
        /\ \A b \in DOMAIN batches : batches[b] # <<>>
        /\ Flatten(batches) = needUpload
        /\ \A b \in DOMAIN batches : SizeOf(batches[b]) < BATCH_SIZE_LIMIT
        /\ \A b \in DOMAIN batches :
              b < Len(batches) =>
                  SizeOf(batches[b]) + sizes[batches[b + 1][1]] >= BATCH_SIZE_LIMIT
        /\ ([j \in DOMAIN needUpload |-> sizes[needUpload[j]]]
                = <<30 * MB, 30 * MB, 10 * MB>>
            => batches = <<SubSeq(needUpload, 1, 1), SubSeq(needUpload, 2, 3)>>)

C2_Witness ==
    /\ impl = "v2"
    /\ storage = ArweaveNative
    /\ pc = "bundle"
    /\ [j \in DOMAIN needUpload |-> sizes[needUpload[j]]] = <<30 * MB, 30 * MB, 10 * MB>>
    /\ Len(batches) = 2
    /\ Len(batches[2]) = 2

\* C3: when some pending item, at any position, alone meets or exceeds the
\* ceiling, the bundle path raises before any bundle upload is issued and no
\* link is written to the cache.
C3_OversizedItem ==
    (/\ impl = "v2"
     /\ storage = ArweaveNative
     /\ run > 0
     /\ \E j \in DOMAIN needUpload : sizes[needUpload[j]] >= BATCH_SIZE_LIMIT) =>
        /\ pc = "aborted"
        /\ ret = "raised"
        /\ batches = <<>>
        /\ \A x \in DOMAIN nUploads : nUploads[x] = 0
        /\ mem = startDisk
        /\ disk = startDisk

C3_Witness ==
    /\ impl = "v2"
    /\ storage = ArweaveNative
    /\ pc = "aborted"
    /\ Len(needUpload) >= 3
    /\ sizes[needUpload[1]] < BATCH_SIZE_LIMIT
    /\ sizes[needUpload[2]] < BATCH_SIZE_LIMIT
    /\ sizes[needUpload[3]] >= BATCH_SIZE_LIMIT

\* C4: an item of a bundle batch has a link, in the in-memory cache or in the
\* cache file, only if both phases of its batch succeeded.
C4_BundleAllOrNothing ==
    \A b \in DOMAIN batches : \A j \in DOMAIN batches[b] :
        (\/ LinkOf(mem.items, batches[b][j]) # NoLink
         \/ LinkOf(disk.items, batches[b][j]) # NoLink) => bst[b] = "done"

C4_Witness ==
    /\ Len(batches) >= 2
    /\ bst[1] = "done"
    /\ bst[2] = "manifestFailed"

\* the part of a v1 run that every window with a failed upload shares: in the
\* windows the loop has completed, an uploaded item has its link in the cache
\* file and a failed item has none, and a run that ends after a failed upload
\* returns false
C5_Windows ==
    /\ \A i \in 0..(Min(cur, Len(images)) - 1) :
          LET x == IndexAt(images, i)
          IN /\ (tasks[i + 1] = "ok" /\ x \in upOk) =>
                    LinkOf(disk.items, x) = ItemLink(x)
             /\ tasks[i + 1] = "fail" =>
                    (LinkOf(disk.items, x) = NoLink /\ LinkOf(mem.items, x) = NoLink)
    /\ (upFail # {} /\ pc = "done") => ret = "false"

\* C5 (as amended): in the count-bounded path of upload.ts, after a window
\* with a failed upload the links of the window's successful items are in
\* the cache file, the failed item has no link, the returned flag is false,
\* and the run does not raise unless the createConfig call of the first
\* window fails.
C5_PartialFailureIsolation ==
    (impl = "v1" /\ run > 0) =>
        /\ C5_Windows
        /\ (upFail # {} /\ \A p \in DOMAIN tasks : tasks[p] # "rejected") =>
               ret # "raised"

\* C5 as stated: once an upload of a window has failed, the run goes on
\* without raising
C5_Original ==
    [][(impl = "v1" /\ pc = "window" /\ upFail # {}) => pc' # "aborted"]_vars

C5_Witness ==
    /\ impl = "v1"
    /\ storage = "arweave"
    /\ pc = "done"
    /\ ret = "false"
    /\ wFail = 0
    /\ Cardinality(upFail) = 1
    /\ \E x \in upFail : \E i \in Window(images, storage, 0) :
          /\ IndexAt(images, i) = x
          /\ \A j \in Window(images, storage, 0) \ {i} :
                /\ IndexAt(images, j) \in upOk
                /\ LinkOf(disk.items, IndexAt(images, j)) # NoLink
    /\ Cardinality(Window(images, storage, 0)) = BATCH_SIZE_ARWEAVE

\* the consecutive groups of at most GROUP_SIZE keys
NGroups(ks) == (Len(ks) + GROUP_SIZE - 1) \div GROUP_SIZE

GroupKeys(ks, g) == SubSeq(ks, GROUP_SIZE * g + 1, Min(GROUP_SIZE * g + GROUP_SIZE, Len(ks)))

\* the addConfigLines calls issued for the members ms
WritesFor(ms) == Cardinality({i \in DOMAIN writes : writes[i].members = ms})

\* some member was not on chain when the run began
NeededAtStart(ms) == \E j \in DOMAIN ms : ~OnChainOf(startDisk.items, ms[j])

OnChainAtStart == {k \in DOMAIN startDisk.items : startDisk.items[k].onChain}

\* C6: every addConfigLines call is for one of the consecutive groups of at
\* most 10 keys; a group is written at most once, only if one of its members
\* is not on chain, and a completed commit run has written every such group;
\* with 25 items of which the first 10 are on chain that is 2 calls.
C6_GroupIdempotence ==
    (pc \in {"registry", "done"}) =>
        /\ \A i \in DOMAIN writes :
              \E g \in 0..(NGroups(keys) - 1) : writes[i].members = GroupKeys(keys, g)
        /\ \A g \in 0..(NGroups(keys) - 1) :
              /\ WritesFor(GroupKeys(keys, g)) <= 1
              /\ WritesFor(GroupKeys(keys, g)) = 1 => NeededAtStart(GroupKeys(keys, g))
              /\ (pc = "done" /\ NeededAtStart(GroupKeys(keys, g))) =>
                    WritesFor(GroupKeys(keys, g)) = 1
        /\ (pc = "done" /\ Len(keys) = 25 /\ OnChainAtStart = 0..9) => Len(writes) = 2

C6_Witness ==
    /\ pc = "done"
    /\ Len(keys) >= 25
    /\ OnChainAtStart = 0..9
    /\ Len(writes) = 2

\* an item that had no link when the run began
NeededUpload(x) == LinkOf(startDisk.items, x) = NoLink

\* C7: the value upload() returns is true only if every item that needed
\* uploading got a link and every addConfigLines call succeeded, and it is
\* false whenever an upload or an addConfigLines call of the run failed.
C7_AggregateFlag ==
    pc = "done" =>
        /\ ret = "true" =>
              /\ upFail = {}
              /\ wFail = 0
              /\ \A x \in DOMAIN nUploads : NeededUpload(x) => LinkOf(mem.items, x) # NoLink
        /\ (upFail # {} \/ wFail > 0) => ret = "false"

\* C8: in the in-memory cache and in the cache file, every entry that is on
\* chain has a link.
C8_OnChainHasLink ==
    /\ \A k \in DOMAIN mem.items : mem.items[k].onChain => mem.items[k].link # NoLink
    /\ \A k \in DOMAIN disk.items : disk.items[k].onChain => disk.items[k].link # NoLink

C8_Witness ==
    /\ pc = "done"
    /\ \E k \in DOMAIN disk.items :
          /\ disk.items[k].onChain
          /\ NeededUpload(k)
          /\ k \in upOk

\* C9: when a run has ended, normally or by raising, the links of every batch
\* that completed its upload are in the cache file: the items uploaded in the
\* completed windows of upload.ts, the items of every bundle batch whose two
\* phases succeeded, and the items the loop of part_000 uploaded.
C9_PerBatchDurability ==
    pc \in {"done", "aborted"} =>
        /\ impl = "v1" =>
              \A i \in 0..(Min(cur, Len(images)) - 1) :
                  IndexAt(images, i) \in upOk =>
                      LinkOf(disk.items, IndexAt(images, i)) # NoLink
        /\ impl = "v2" =>
              \A b \in DOMAIN bst : bst[b] = "done" =>
                  \A x \in BatchSet(b) : LinkOf(disk.items, x) # NoLink
        /\ (impl = "v2" /\ storage # ArweaveNative) =>
              \A x \in upOk : LinkOf(disk.items, x) # NoLink

\* C10: in one run at most one storage upload is issued for an index.
C10_AtMostOneUpload ==
    \A x \in DOMAIN nUploads : nUploads[x] <= 1

C10_Witness ==
    /\ \E i, j \in DOMAIN files :
          i # j /\ files[i].stem = files[j].stem /\ nUploads[files[i].stem] = 1
    /\ \E x \in DOMAIN startDisk.items :
          (\E i \in DOMAIN files : files[i].stem = x) /\ nUploads[x] = 0
    /\ pc = "done"

\* C11: when createConfig has failed the run has raised, createConfig was
\* called once, no addConfigLines call was issued, the cache file holds no
\* registry handle, and the cache file is not written in the failing step nor
\* afterwards in that run.
C11_InitFailureFatal ==
    /\ [](hist.initFailed =>
            /\ pc = "aborted"
            /\ ret = "raised"
            /\ inits = 1
            /\ writes = <<>>
            /\ ~disk.config
            /\ ~disk.uuid)
    /\ [][hist'.initFailed => disk' = disk]_vars

C11_Witness ==
    /\ hist.initFailed
    /\ impl = "v1"
    /\ upOk # {}
    /\ run = 1

\* the run is suspended on a storage upload, on createConfig or on
\* addConfigLines
Suspended ==
    \/ pc = "window" /\ \E p \in DOMAIN tasks : tasks[p] \in {"config", "upload"}
    \/ pc \in {"loop", "bundle", "init"}
    \/ pc = "registry" /\ \E c \in DOMAIN chunkOff : chunkOff[c] # Done

\* C12: whenever the run is suspended on an external call, the
\* cache file equals the in-memory cache
C12_Original == Suspended => disk = mem

\* createConfig is issued by the step: by a run that goes on, or by the run
\* the step starts
InitIssued ==
    \/ run' = run /\ inits' > inits
    \/ run' # run /\ inits' > 0

\* C13: once a createConfig call has succeeded, no run sharing the cache file
\* issues createConfig again, and a run whose loaded cache holds a registry
\* handle issues no createConfig call
C13_HandleCreatedOnce ==
    [][(\/ hist.created
        \/ (IF run' # run THEN disk.config ELSE startDisk.config))
          => ~InitIssued]_vars

\* the indices upload.ts uploads, in the order of images
V1WorkList ==
    LET idx == [p \in DOMAIN images |-> images[p].stem]
        NoLinkYet(x) == LinkOf(startDisk.items, x) = NoLink
    IN SelectSeq(idx, NoLinkYet)

\* the position in fs of the first file with stem x among those in F
FirstPos(fs, F, x) ==
    CHOOSE i \in F : fs[i].stem = x /\ \A j \in F : fs[j].stem = x => i <= j

\* r lists every index of S without link exactly once
ListsPending(r, S) ==
    /\ {r[j] : j \in DOMAIN r} = {x \in S : LinkOf(startDisk.items, x) = NoLink}
    /\ \A j, k \in DOMAIN r : j # k => r[j] # r[k]

\* r has the cache keys first, in the order of Object.keys, and then the
\* stems that are no cache keys in the order the files of F name them first
CacheKeysFirst(r, F) ==
    \A j, k \in DOMAIN r :
        j < k =>
            IF r[j] \in DOMAIN startDisk.items
            THEN r[k] \in DOMAIN startDisk.items => r[j] < r[k]
            ELSE /\ r[k] \notin DOMAIN startDisk.items
                 /\ FirstPos(files, F, r[j]) < FirstPos(files, F, r[k])

\* r has the stems of the files of F first, in first-seen order, and then
\* the cache keys that no file of F names
FilesFirst(r, F) ==
    LET named == {files[i].stem : i \in F}
    IN \A j, k \in DOMAIN r :
        j < k =>
            IF r[j] \in named
            THEN r[k] \in named =>
                    FirstPos(files, F, r[j]) < FirstPos(files, F, r[k])
            ELSE r[k] \notin named /\ r[j] < r[k]

\* C14: the work list of a run holds exactly the indices of (cache keys union
\* file stems) without link, each once, cache keys first and then the new
\* file stems in first-seen order
C14_Original ==
    run > 0 =>
        LET r == IF impl = "v2" THEN needUpload ELSE V1WorkList
        IN /\ ListsPending(r, Universe(files, startDisk.items))
           /\ CacheKeysFirst(r, DOMAIN files)

\* C14 (as amended): getItemsNeedingUpload of part_000 returns exactly the
\* indices of (cache keys union stems of the files) without link, each once,
\* cache keys first and then the new stems in first-seen order; upload.ts
\* computes no work list: it uploads the indices of (cache keys union stems
\* of the .png files) without link, each once, the stems of the .png files
\* first in first-seen order and then the cache keys no file names.
C14_ItemSelector ==
    run > 0 =>
        LET png == {i \in DOMAIN files : IsPng(files[i])}
        IN /\ impl = "v2" =>
                /\ needUpload = getItemsNeedingUpload(startDisk.items, files)
                /\ ListsPending(needUpload, Universe(files, startDisk.items))
                /\ CacheKeysFirst(needUpload, DOMAIN files)
           /\ impl = "v1" =>
                /\ ListsPending(V1WorkList,
                       {files[i].stem : i \in png} \cup DOMAIN startDisk.items)
                /\ FilesFirst(V1WorkList, png)

C14_Witness ==
    /\ impl = "v2"
    /\ run > 0
    /\ \E j, k \in DOMAIN needUpload :
          /\ j < k
          /\ needUpload[j] \in DOMAIN startDisk.items
          /\ needUpload[k] \notin DOMAIN startDisk.items
    /\ \E i \in DOMAIN files :
          LinkOf(startDisk.items, files[i].stem) # NoLink
    /\ \E i, j \in DOMAIN files :
          i < j /\ files[i].stem = files[j].stem
             /\ LinkOf(startDisk.items, files[i].stem) = NoLink

\* the batches whose bundle upload (of images or of manifests) is in flight
InFlight == {b \in DOMAIN bst : bst[b] \in {"image", "manifest"}}

\* C15: in the size-bounded path at most one batch has a bundle upload in
\* flight: the image upload of a batch is not started before the manifest
\* upload of the batch before it has completed
C15_SequentialBatches ==
    pc = "bundle" => Cardinality(InFlight) <= 1

\* C16: the manifest upload of a batch is started only after its image upload
\* has succeeded, the manifest of the j-th item of the batch references the
\* link returned for the j-th image of the batch, and the link recorded for
\* the j-th item is the j-th manifest link
C16_TwoPhaseOrder ==
    impl = "v2" =>
        \A b \in DOMAIN bst :
            /\ bst[b] \in {"image", "imageFailed"} => bres[b] = NoResult
            /\ bst[b] \in {"manifest", "manifestFailed", "done"} =>
                  /\ DOMAIN bres[b].updatedManifests = DOMAIN batches[b]
                  /\ \A j \in DOMAIN batches[b] :
                        /\ bres[b].updatedManifests[j].item = batches[b][j]
                        /\ bres[b].updatedManifests[j].image
                              = ImageLinks(batches[b])[j]
            /\ bst[b] \in {"manifest", "manifestFailed"} =>
                  bres[b].manifestLinks = <<>>
            /\ (bst[b] = "done" /\ pc \in {"init", "registry", "done"}) =>
                  \A j \in DOMAIN batches[b] :
                      /\ LinkOf(mem.items, batches[b][j]) = bres[b].manifestLinks[j]
                      /\ LinkOf(disk.items, batches[b][j]) = bres[b].manifestLinks[j]
                      /\ bres[b].manifestLinks[j]
                            = ManifestLinks(bres[b].updatedManifests)[j]

C16_Witness ==
    /\ impl = "v2"
    /\ pc = "registry"
    /\ Len(batches) >= 2
    /\ \E b \in DOMAIN batches :
          /\ Len(batches[b]) >= 2
          /\ bst[b] = "done"
          /\ LinkOf(disk.items, batches[b][2]) = bres[b].manifestLinks[2]
          /\ bres[b].updatedManifests[2].image = ImageLink(batches[b][2])

\* the positions of images whose promise awaits createConfig or its storage
\* upload
Pending == {p \in DOMAIN tasks : tasks[p] \in {"config", "upload"}}

\* the item uploads in flight in the count-bounded path
UploadsInFlight ==
    IF impl = "v1" THEN Cardinality(Pending)
    ELSE IF pc = "loop" THEN 1 ELSE 0

\* C17: in the count-bounded path at most BATCH_SIZE[storage] item uploads
\* are in flight; the uploads of a window are started only when every upload
\* of the windows before it has settled and the cache has been saved; the
\* registry commit phase starts only after the last window has settled
C17_BoundedWindow ==
    /\ [](storage # ArweaveNative =>
            /\ UploadsInFlight <= BATCH_SIZE(storage)
            /\ impl = "v1" =>
                 /\ \A p \in Pending :
                       /\ cur <= p - 1
                       /\ p - 1 < cur + BATCH_SIZE(storage)
                 /\ pc = "window" =>
                       \A p \in DOMAIN tasks :
                          /\ p - 1 < cur =>
                                /\ tasks[p] \in {"ok", "fail"}
                                /\ LinkOf(disk.items, IndexAt(images, p - 1))
                                      = LinkOf(mem.items, IndexAt(images, p - 1))
                          /\ p - 1 >= cur + BATCH_SIZE(storage) => tasks[p] = "idle"
                 /\ pc = "registry" =>
                       /\ Pending = {}
                       /\ cur >= Len(images)
                       /\ \A p \in DOMAIN tasks : tasks[p] \in {"ok", "fail"}
                       /\ disk.items = mem.items)
    /\ [][(impl = "v1" /\ run' = run) =>
            \A p \in DOMAIN tasks :
                (tasks[p] = "idle" /\ tasks'[p] # "idle") =>
                    /\ cur' <= p - 1
                    /\ \A q \in DOMAIN tasks :
                          q - 1 < cur' => tasks[q] \in {"ok", "fail"}
                    /\ disk' = mem']_vars

C17_Witness ==
    /\ impl = "v1"
    /\ storage = "arweave"
    /\ pc = "window"
    /\ cur = BATCH_SIZE_ARWEAVE
    /\ Pending = {BATCH_SIZE_ARWEAVE + 1}
    /\ upOk # {}
    /\ upFail # {}

\* C18: a failed registry write leaves the cache, and so the onChain flags of
\* the group, unchanged and does not end or raise the commit phase; a
\* completed commit phase has attempted every group that had a member not on
\* chain, whatever writes failed; an onChain flag is true only if it was true
\* when the run began or a write covering the entry has succeeded in the run
C18_GroupFailureIsolation ==
    /\ [](/\ \A k \in DOMAIN mem.items :
                OnChainOf(mem.items, k) =>
                    (OnChainOf(startDisk.items, k) \/ k \in hist.wOk)
          /\ \A k \in DOMAIN mem.items :
                (k \in hist.wFailed /\ pc \in {"registry", "done"}) =>
                    OnChainOf(mem.items, k) = OnChainOf(startDisk.items, k)
          /\ pc = "done" =>
                /\ ret # "raised"
                /\ \A g \in 0..(NGroups(keys) - 1) :
                      NeededAtStart(GroupKeys(keys, g)) =>
                          WritesFor(GroupKeys(keys, g)) = 1)
    /\ [][/\ wFail' > wFail =>
                /\ mem' = mem
                /\ disk' = disk
                /\ pc' = "registry"
                /\ ret' = ret
          /\ pc = "registry" => pc' \in {"registry", "done", "crashed"}]_vars

C18_Witness ==
    /\ pc = "done"
    /\ wFail > 0
    /\ \E k \in hist.wFailed :
          /\ ~OnChainOf(disk.items, k)
          /\ \E k2 \in hist.wOk : k < k2 /\ OnChainOf(disk.items, k2)

\* C19: every addConfigLines call places the pair of the item with index p
\* at registry line p: its start offset is the index of the first member of
\* the group and the indices of the members are consecutive from it
C19_PositionAlignment ==
    \A i \in DOMAIN writes :
        \A j \in DOMAIN writes[i].members :
            writes[i].members[j] = writes[i].ind + j - 1

\* C20: with several chunks of 1000 keys writing their groups interleaved,
\* every save keeps the links and the onChain marks the cache file has, the
\* file holds the mark of every group written so far by any chunk, and at
\* the end of the commit phase the file equals the in-memory cache, in which
\* an entry is on chain exactly if it was when the phase began or a write of
\* its group has succeeded in the phase
C20_NoLostUpdate ==
    /\ [](pc \in {"registry", "done"} =>
            /\ \A k \in hist.wOk :
                  OnChainOf(disk.items, k) /\ OnChainOf(mem.items, k)
            /\ \A k \in DOMAIN mem.items :
                  OnChainOf(mem.items, k) <=>
                      (OnChainOf(startDisk.items, k) \/ k \in hist.wOk)
            /\ pc = "done" => disk = mem)
    /\ [][pc = "registry" =>
            \A k \in DOMAIN disk.items :
                /\ k \in DOMAIN disk'.items
                /\ disk'.items[k].link = disk.items[k].link
                /\ disk.items[k].onChain => disk'.items[k].onChain]_vars

C20_Witness ==
    /\ pc = "registry"
    /\ Len(chunkOff) = 2
    /\ chunkOff[1] # Done
    /\ chunkOff[2] = Done
    /\ \E k \in hist.wOk : k < CHUNK_SIZE /\ OnChainOf(disk.items, k)
    /\ \E k \in hist.wOk : k >= CHUNK_SIZE /\ OnChainOf(disk.items, k)
    /\ hist.wFailed # {}

\* no storage upload, no createConfig call and no addConfigLines call of
\* the run has failed
FailureFree == upFail = {} /\ wFail = 0 /\ ~hist.initFailed

\* C21: a run in which every external call succeeded ends with every item of
\* the file list and every key of the cache holding, in the cache file, a
\* link and onChain = true, for every storage backend
C21_FailureFreeCompletion ==
    (pc = "done" /\ FailureFree) =>
        \A x \in Universe(files, startDisk.items) :
            /\ LinkOf(disk.items, x) # NoLink
            /\ OnChainOf(disk.items, x)

====
